---------------------------- MODULE Spec2Model ----------------------------
(***************************************************************************)
(* A model of tyger.py, the Python runtime of Tyger: the packers (pack,    *)
(* unpack, recv) and the stream reader recv_all.                           *)
(*                                                                         *)
(* Conventions of the model.                                               *)
(*  - A byte string is a sequence of integers in 0..255.  recv_all builds  *)
(*    its result from "" and compares every read with "", and the tests    *)
(*    compare pack output with '\x00...' literals: the byte string and the *)
(*    narrow string are one type, and sock.recv returns that type, as the  *)
(*    runtime's recv path assumes.                                         *)
(*  - A text string is the sequence of its code points.                    *)
(*  - A call either returns a value or raises: Return(v) / Raise(e).       *)
(*  - Integers are TLC's (below 2^31 in magnitude): the values, and the    *)
(*    bytes handed to unpack and recv, are drawn so that every integer the *)
(*    code computes is in that range (InModelRange).                       *)
(*  - float32Packer and float64Packer are left out.                        *)
(***************************************************************************)
EXTENDS Integers, Sequences, FiniteSets, TLC

(* ------------------------------ bounds -------------------------------- *)

\* longest text string handed to a string packer
MaxStr == 2
\* largest width handed to uintPacker
MaxWidth == 3
\* longest buffer of arbitrary bytes handed to unpack
MaxBuf == 6
\* longest string payload sent over a connection
MaxPayload == 2
\* recv calls made on one connection
MaxCalls == 2

(* --------------------------- call outcomes ---------------------------- *)

Return(v) == [ok |-> TRUE, val |-> v]

Raise(e) == [ok |-> FALSE, exc |-> e]

(* ------------------------- Python primitives -------------------------- *)

Min(a, b) == IF a <= b THEN a ELSE b

\* buf[lo:hi] for 0 <= lo, 0 <= hi: a slice is clipped to the buffer, never
\* an error
Slice(buf, lo, hi) == SubSeq(buf, lo + 1, Min(hi, Len(buf)))

\* value >> (8 * i): an arithmetic shift, i.e. floor division
RECURSIVE ShiftRight8(_, _)
ShiftRight8(value, i) ==
  IF i = 0 THEN value ELSE ShiftRight8(value \div 256, i - 1)

\* b << (8 * i)
RECURSIVE ShiftLeft8(_, _)
ShiftLeft8(b, i) == IF i = 0 THEN b ELSE ShiftLeft8(b * 256, i - 1)

\* a | b for non-negative a, b
RECURSIVE BitOr(_, _)
BitOr(a, b) ==
  IF a = 0 THEN b
  ELSE IF b = 0 THEN a
  ELSE (IF a % 2 = 1 \/ b % 2 = 1 THEN 1 ELSE 0)
       + 2 * BitOr(a \div 2, b \div 2)

(* ------------------------------ struct -------------------------------- *)

\* the _format of each basePacker subclass (the float packers are left out:
\* the model has no floating point)
Format(packer) ==
  CASE packer = "boolPacker"   -> ">?"
    [] packer = "int8Packer"   -> ">b"
    [] packer = "int16Packer"  -> ">h"
    [] packer = "int32Packer"  -> ">i"
    [] packer = "int64Packer"  -> ">q"
    [] packer = "uint8Packer"  -> ">B"
    [] packer = "uint16Packer" -> ">H"
    [] packer = "uint32Packer" -> ">I"
    [] packer = "uint64Packer" -> ">Q"

IntPackers ==
  {"int8Packer", "int16Packer", "int32Packer", "int64Packer",
   "uint8Packer", "uint16Packer", "uint32Packer", "uint64Packer"}

BasePackers == {"boolPacker"} \cup IntPackers

\* struct.calcsize
calcsize(fmt) ==
  CASE fmt \in {">?", ">b", ">B"} -> 1
    [] fmt \in {">h", ">H"} -> 2
    [] fmt \in {">i", ">I"} -> 4
    [] fmt \in {">q", ">Q"} -> 8

Signed(fmt) == fmt \in {">b", ">h", ">i", ">q"}

\* struct's range check of an integer argument.  Every integer of the model
\* is inside the range of a signed format of 4 or 8 bytes, and below the
\* upper end of an unsigned one.
InFormatRange(fmt, value) ==
  LET size == calcsize(fmt)
  IN  IF Signed(fmt)
        THEN size >= 4 \/ (-(2 ^ (8 * size - 1)) <= value
                           /\ value < 2 ^ (8 * size - 1))
        ELSE value >= 0 /\ (size >= 4 \/ value < 2 ^ (8 * size))

\* the size bytes of value, most significant first, two's complement
BigEndian(value, size) ==
  [k \in 1..size |-> ShiftRight8(value, size - k) % 256]

\* the integer a big-endian byte string stands for
RECURSIVE FromBigEndian(_, _)
FromBigEndian(data, signed) ==
  IF data = <<>> THEN 0
  ELSE IF Len(data) = 1
    THEN (IF signed /\ data[1] >= 128 THEN data[1] - 256 ELSE data[1])
  ELSE FromBigEndian(SubSeq(data, 1, Len(data) - 1), signed) * 256
       + data[Len(data)]

\* struct.pack without the range check: the value wraps
struct_pack_wrap(fmt, value) ==
  IF fmt = ">?" THEN Return(<<IF value THEN 1 ELSE 0>>)
  ELSE Return(BigEndian(value, calcsize(fmt)))

\* struct.pack(fmt, value)
struct_pack(fmt, value) ==
  IF fmt = ">?" THEN Return(<<IF value THEN 1 ELSE 0>>)
  ELSE IF ~InFormatRange(fmt, value) THEN Raise("struct.error")
  ELSE Return(BigEndian(value, calcsize(fmt)))

\* struct.unpack(fmt, data): the one value of the format
struct_unpack(fmt, data) ==
  IF Len(data) # calcsize(fmt) THEN Raise("struct.error")
  ELSE IF fmt = ">?" THEN Return(data[1] # 0)
  ELSE Return(FromBigEndian(data, Signed(fmt)))

(* ---------------------------- basePacker ------------------------------ *)

basePacker_pack(cls, value) == struct_pack(Format(cls), value)

\* unpack that returns the offset it was given
basePacker_unpack_same_offset(cls, buf, offset) ==
  LET size == calcsize(Format(cls))
      r == struct_unpack(Format(cls), Slice(buf, offset, offset + size))
  IN  IF r.ok THEN Return(<<r.val, offset>>) ELSE r

basePacker_unpack(cls, buf, offset) ==
  LET size == calcsize(Format(cls))
      r == struct_unpack(Format(cls), Slice(buf, offset, offset + size))
  IN  IF r.ok THEN Return(<<r.val, offset + size>>) ELSE r

(* ---------------------------- uintPacker ------------------------------ *)

\* the loop of uintPacker.pack from index i down to 0, data being the bytes
\* packed so far
RECURSIVE uintPacker_pack_loop(_, _, _)
uintPacker_pack_loop(i, value, data) ==
  IF i < 0 THEN Return(data)
  ELSE LET b == basePacker_pack("uint8Packer", ShiftRight8(value, i) % 256)
       IN  IF b.ok THEN uintPacker_pack_loop(i - 1, value, data \o b.val)
           ELSE b

\* pack that emits the least significant byte first
uintPacker_pack_le(num_bytes, value) ==
  Return([k \in 1..num_bytes |-> ShiftRight8(value, k - 1) % 256])

uintPacker_pack(num_bytes, value) ==
  uintPacker_pack_loop(num_bytes - 1, value, <<>>)

\* the loop of uintPacker.unpack from index i down to 0
RECURSIVE uintPacker_unpack_loop(_, _, _, _)
uintPacker_unpack_loop(i, buf, offset, value) ==
  IF i < 0 THEN Return(<<value, offset>>)
  ELSE LET r == basePacker_unpack("uint8Packer", buf, offset)
       IN  IF r.ok
             THEN uintPacker_unpack_loop(i - 1, buf, r.val[2],
                                         BitOr(value, ShiftLeft8(r.val[1], i)))
             ELSE r

uintPacker_unpack(num_bytes, buf, offset) ==
  uintPacker_unpack_loop(num_bytes - 1, buf, offset, 0)

(* ------------------------------ codecs -------------------------------- *)

\* str.encode('ascii')
ascii_encode(s) ==
  IF \E k \in 1..Len(s) : s[k] >= 128 THEN Raise("UnicodeEncodeError")
  ELSE Return(s)

\* bytes.decode('ascii')
ascii_decode(data) ==
  IF \E k \in 1..Len(data) : data[k] >= 128 THEN Raise("UnicodeDecodeError")
  ELSE Return(data)

IsSurrogate(c) == 55296 <= c /\ c <= 57343

\* the UTF-8 bytes of one code point
utf8_bytes(c) ==
  IF c < 128 THEN <<c>>
  ELSE IF c < 2048 THEN <<192 + (c \div 64), 128 + (c % 64)>>
  ELSE IF c < 65536
    THEN <<224 + (c \div 4096), 128 + ((c \div 64) % 64), 128 + (c % 64)>>
  ELSE <<240 + (c \div 262144), 128 + ((c \div 4096) % 64),
         128 + ((c \div 64) % 64), 128 + (c % 64)>>

\* str.encode('utf-8')
RECURSIVE utf8_encode(_)
utf8_encode(s) ==
  IF s = <<>> THEN Return(<<>>)
  ELSE IF IsSurrogate(Head(s)) \/ Head(s) > 1114111
    THEN Raise("UnicodeEncodeError")
  ELSE LET rest == utf8_encode(Tail(s))
       IN  IF rest.ok THEN Return(utf8_bytes(Head(s)) \o rest.val) ELSE rest

IsContinuation(b) == 128 <= b /\ b < 192

\* the length of the UTF-8 sequence a lead byte opens, 0 for no lead byte
utf8_length(b) ==
  IF b < 128 THEN 1
  ELSE IF 194 <= b /\ b < 224 THEN 2
  ELSE IF 224 <= b /\ b < 240 THEN 3
  ELSE IF 240 <= b /\ b < 245 THEN 4
  ELSE 0

\* the code point of one well-framed UTF-8 sequence
utf8_code_point(q) ==
  CASE Len(q) = 1 -> q[1]
    [] Len(q) = 2 -> (q[1] - 192) * 64 + (q[2] - 128)
    [] Len(q) = 3 -> (q[1] - 224) * 4096 + (q[2] - 128) * 64 + (q[3] - 128)
    [] Len(q) = 4 -> (q[1] - 240) * 262144 + (q[2] - 128) * 4096
                     + (q[3] - 128) * 64 + (q[4] - 128)

\* bytes.decode('utf-8') (strict): truncated, overlong, surrogate and
\* out-of-range sequences are errors
RECURSIVE utf8_decode(_)
utf8_decode(data) ==
  IF data = <<>> THEN Return(<<>>)
  ELSE
    LET n == utf8_length(Head(data))
        q == SubSeq(data, 1, n)
    IN  IF n = 0 \/ Len(data) < n
             \/ (\E k \in 2..n : ~IsContinuation(data[k]))
          THEN Raise("UnicodeDecodeError")
        ELSE
          LET c == utf8_code_point(q)
          IN  IF utf8_bytes(c) # q \/ IsSurrogate(c) \/ c > 1114111
                THEN Raise("UnicodeDecodeError")
              ELSE LET rest == utf8_decode(SubSeq(data, n + 1, Len(data)))
                   IN  IF rest.ok THEN Return(<<c>> \o rest.val) ELSE rest

(* --------------------------- string packers --------------------------- *)

astringPacker_pack(value) ==
  LET asc == ascii_encode(value)
  IN  IF ~asc.ok THEN asc
      ELSE LET head == struct_pack(">I", Len(asc.val))
           IN  IF head.ok THEN Return(head.val \o asc.val) ELSE head

\* unpack that counts the payload alone in the offset it returns
astringPacker_unpack_no_prefix(buf, offset) ==
  LET l == basePacker_unpack("uint32Packer", buf, offset)
  IN  IF ~l.ok THEN l
      ELSE LET length == l.val[1]
               off == l.val[2]
               s == ascii_decode(Slice(buf, off, off + length))
           IN  IF s.ok THEN Return(<<s.val, offset + length>>) ELSE s

astringPacker_unpack(buf, offset) ==
  LET l == basePacker_unpack("uint32Packer", buf, offset)
  IN  IF ~l.ok THEN l
      ELSE LET length == l.val[1]
               off == l.val[2]
               s == ascii_decode(Slice(buf, off, off + length))
           IN  IF s.ok THEN Return(<<s.val, off + length>>) ELSE s

wstringPacker_pack(value) ==
  LET utf8 == utf8_encode(value)
  IN  IF ~utf8.ok THEN utf8
      ELSE LET head == struct_pack(">I", Len(utf8.val))
           IN  IF head.ok THEN Return(head.val \o utf8.val) ELSE head

wstringPacker_unpack(buf, offset) ==
  LET l == basePacker_unpack("uint32Packer", buf, offset)
  IN  IF ~l.ok THEN l
      ELSE LET length == l.val[1]
               off == l.val[2]
               s == utf8_decode(Slice(buf, off, off + length))
           IN  IF s.ok THEN Return(<<s.val, off + length>>) ELSE s

(* ------------------ generated record packers (Objects) ---------------- *)

\* VectorPacker: the record of three int32 fields x, y, z
VectorPacker_pack(value) ==
  LET x == basePacker_pack("int32Packer", value.x)
      y == basePacker_pack("int32Packer", value.y)
      z == basePacker_pack("int32Packer", value.z)
  IN  IF ~x.ok THEN x
      ELSE IF ~y.ok THEN y
      ELSE IF ~z.ok THEN z
      ELSE Return(x.val \o y.val \o z.val)

VectorPacker_unpack(buf, offset) ==
  LET x == basePacker_unpack("int32Packer", buf, offset)
  IN  IF ~x.ok THEN x
      ELSE LET y == basePacker_unpack("int32Packer", buf, x.val[2])
           IN  IF ~y.ok THEN y
               ELSE LET z == basePacker_unpack("int32Packer", buf, y.val[2])
                    IN  IF ~z.ok THEN z
                        ELSE Return(<<[x |-> x.val[1], y |-> y.val[1],
                                       z |-> z.val[1]], z.val[2]>>)

\* PlanePacker: the record of two Vector fields sv, nv
PlanePacker_pack(value) ==
  LET sv == VectorPacker_pack(value.sv)
      nv == VectorPacker_pack(value.nv)
  IN  IF ~sv.ok THEN sv
      ELSE IF ~nv.ok THEN nv
      ELSE Return(sv.val \o nv.val)

PlanePacker_unpack(buf, offset) ==
  LET sv == VectorPacker_unpack(buf, offset)
  IN  IF ~sv.ok THEN sv
      ELSE LET nv == VectorPacker_unpack(buf, sv.val[2])
           IN  IF ~nv.ok THEN nv
               ELSE Return(<<[sv |-> sv.val[1], nv |-> nv.val[1]], nv.val[2]>>)

(* ----------------------------- dispatch -------------------------------- *)

StringPackers == {"astringPacker", "wstringPacker"}

RecordPackers == {"VectorPacker", "PlanePacker"}

\* packer.pack(value), or uintPacker.pack(num_bytes, value)
pack(packer, num_bytes, value) ==
  CASE packer \in BasePackers -> basePacker_pack(packer, value)
    [] packer = "uintPacker" -> uintPacker_pack(num_bytes, value)
    [] packer = "astringPacker" -> astringPacker_pack(value)
    [] packer = "wstringPacker" -> wstringPacker_pack(value)
    [] packer = "VectorPacker" -> VectorPacker_pack(value)
    [] packer = "PlanePacker" -> PlanePacker_pack(value)

\* packer.unpack(buf, offset), or uintPacker.unpack(num_bytes, buf, offset)
unpack(packer, num_bytes, buf, offset) ==
  CASE packer \in BasePackers -> basePacker_unpack(packer, buf, offset)
    [] packer = "uintPacker" -> uintPacker_unpack(num_bytes, buf, offset)
    [] packer = "astringPacker" -> astringPacker_unpack(buf, offset)
    [] packer = "wstringPacker" -> wstringPacker_unpack(buf, offset)
    [] packer = "VectorPacker" -> VectorPacker_unpack(buf, offset)
    [] packer = "PlanePacker" -> PlanePacker_unpack(buf, offset)

(* ------------------------------ inputs -------------------------------- *)

\* all sequences over S of length at most n
SeqsUpTo(S, n) == UNION {[1..k -> S] : k \in 0..n}

\* integers around the ends of every format's range
IntValues ==
  {-2147483647 - 1, -2147483647, -32769, -32768, -129, -128, -6, -1, 0, 1,
   10, 127, 128, 255, 256, 261, 32767, 32768, 65535, 65536, 66051,
   2147483647}

\* code points of 1, 2, 3 and 4 UTF-8 bytes: A j o-umlaut euro emoji
CodePoints == {65, 106, 246, 8364, 128512}

Strings == SeqsUpTo(CodePoints, MaxStr)

\* the fields of the vectors of test_objects.py
FieldValues == {-6, 2, 3, 4, 5, 10}

Vectors == [x : FieldValues, y : FieldValues, z : FieldValues]

Planes ==
  [sv : {v \in Vectors : v.y = 2 /\ v.z = 3},
   nv : {v \in Vectors : v.x = 4 /\ v.y = 5}]

\* the bytes of the buffers of arbitrary content
BufBytes == {0, 2, 200}

Buffers == SeqsUpTo(BufBytes, MaxBuf)

Widths == 0..MaxWidth

\* the values handed to a packer's pack
Values(packer) ==
  CASE packer = "boolPacker" -> BOOLEAN
    [] packer \in IntPackers \cup {"uintPacker"} -> IntValues
    [] packer \in StringPackers -> Strings
    [] packer = "VectorPacker" -> Vectors
    [] packer = "PlanePacker" -> Planes

Packers == BasePackers \cup {"uintPacker"} \cup StringPackers \cup RecordPackers

\* a big-endian byte string whose integer is one of the model's: at most 31
\* significant bits
InModelRange(data, signed) ==
  IF Len(data) < 4 THEN TRUE
  ELSE LET lead == SubSeq(data, 1, Len(data) - 4)
           top == data[Len(data) - 3]
       IN  IF top < 128 THEN \A k \in 1..Len(lead) : lead[k] = 0
           ELSE signed /\ \A k \in 1..Len(lead) : lead[k] = 255

\* the bytes unpack decodes as one integer first: the value of an integer
\* packer, the length prefix of a string
FirstInteger(packer, num_bytes, buf, offset) ==
  CASE packer \in BasePackers ->
         Slice(buf, offset, offset + calcsize(Format(packer)))
    [] packer = "uintPacker" -> Slice(buf, offset, offset + num_bytes)
    [] packer \in StringPackers -> Slice(buf, offset, offset + 4)
    [] OTHER -> <<>>

Decodable(packer, num_bytes, buf, offset) ==
  InModelRange(FirstInteger(packer, num_bytes, buf, offset),
               packer \in BasePackers /\ Signed(Format(packer)))

(* ------------------------------- state -------------------------------- *)

VARIABLES
  call,      \* the pack or unpack call made last: its packer and arguments
  ret,       \* what that call returned or raised
  conn,      \* the bytes the peer has sent and sock has not yet delivered;
             \* once they are delivered the peer has closed the connection
  pc,        \* where the recv call on the connection stands
  frame,     \* the recv call: its packer, its width, the recv_all it is in,
             \* and the connection as the call found it
  size,      \* recv_all's size
  received,  \* recv_all's received
  reads,     \* the reads recv_all has issued: the count asked, the bytes got
  data,      \* what recv_all returned to the recv that called it
  result,    \* what the recv call returned or raised
  calls      \* the recv calls made on the connection

codec_vars == <<call, ret>>

recv_vars == <<conn, pc, frame, size, received, reads, data, result, calls>>

vars == <<call, ret, conn, pc, frame, size, received, reads, data, result,
          calls>>

NoCall ==
  [op |-> "none", packer |-> "none", num_bytes |-> 0, value |-> 0,
   buf |-> <<>>, offset |-> 0]

CodecInit == call = NoCall /\ ret = Return(0)

(* ----------------------------- pack, unpack --------------------------- *)

\* a call of pack
DoPack(packer, num_bytes, value) ==
  /\ call' = [op |-> "pack", packer |-> packer, num_bytes |-> num_bytes,
              value |-> value, buf |-> <<>>, offset |-> 0]
  /\ ret' = pack(packer, num_bytes, value)
  /\ UNCHANGED recv_vars

\* a call of unpack, on bytes whose integer is one of the model's
DoUnpack(op, packer, num_bytes, value, buf, offset) ==
  /\ Decodable(packer, num_bytes, buf, offset)
  /\ call' = [op |-> op, packer |-> packer, num_bytes |-> num_bytes,
              value |-> value, buf |-> buf, offset |-> offset]
  /\ ret' = unpack(packer, num_bytes, buf, offset)
  /\ UNCHANGED recv_vars

\* packer.pack(value)
Pack ==
  /\ call.op = "none"
  /\ \E packer \in Packers \ {"uintPacker"} : \E value \in Values(packer) :
       DoPack(packer, 0, value)

\* uintPacker.pack(num_bytes, value)
PackUint ==
  /\ call.op = "none"
  /\ \E num_bytes \in Widths : \E value \in IntValues :
       DoPack("uintPacker", num_bytes, value)

\* packer.unpack(pad + packed, len(pad)) of the bytes the last pack returned
UnpackPacked ==
  /\ call.op = "pack"
  /\ ret.ok
  /\ \E pad \in {<<>>, <<7>>} :
       DoUnpack("unpack_packed", call.packer, call.num_bytes, call.value,
                pad \o ret.val, Len(pad))

\* packer.unpack of the first k bytes of what the last pack returned
UnpackTruncated ==
  /\ call.op = "pack"
  /\ ret.ok
  /\ \E k \in 0..(Len(ret.val) - 1) :
       DoUnpack("unpack_truncated", call.packer, call.num_bytes, call.value,
                SubSeq(ret.val, 1, k), 0)

\* packer.unpack(buf, offset) of a buffer of arbitrary content
Unpack ==
  /\ call.op = "none"
  /\ \E packer \in BasePackers \cup StringPackers : \E buf \in Buffers :
       \E offset \in 0..(Len(buf) + 1) :
         DoUnpack("unpack", packer, 0, 0, buf, offset)

\* uintPacker.unpack(num_bytes, buf, offset) of such a buffer
UnpackUint ==
  /\ call.op = "none"
  /\ \E num_bytes \in Widths : \E buf \in Buffers :
       \E offset \in 0..(Len(buf) + 1) :
         DoUnpack("unpack", "uintPacker", num_bytes, 0, buf, offset)

CodecNext ==
  \/ Pack
  \/ PackUint
  \/ UnpackPacked
  \/ UnpackTruncated
  \/ Unpack
  \/ UnpackUint

(* ----------------------------- connection ------------------------------ *)

\* sock.recv(count) on a blocking socket: at least one byte and at most
\* count of those sent, or no byte once the peer has closed
sock_recv(count) ==
  IF conn = <<>> THEN {<<>>}
  ELSE {SubSeq(conn, 1, k) : k \in 1..Min(count, Len(conn))}

\* the payloads of the string frames sent: A, and the two bytes of o-umlaut
PayloadBytes == {65, 195, 182}

StringFrames ==
  {BigEndian(Len(payload), 4) \o payload :
     payload \in SeqsUpTo(PayloadBytes, MaxPayload)}

\* what a peer sends as one value
Messages ==
  StringFrames
  \cup {pack("uintPacker", n, v).val : n \in Widths, v \in {5, 261, 66051}}
  \cup {pack("boolPacker", 0, TRUE).val, pack("uint8Packer", 0, 200).val,
        pack("int16Packer", 0, -6).val, pack("int32Packer", 0, 10).val,
        pack("int64Packer", 0, -6).val}

\* what it sends next
Tails == {<<>>, <<7>>, <<0, 0, 0, 1, 65>>}

\* a connection carries a message and a tail, cut where the peer closes
Streams ==
  UNION {{SubSeq(m \o t, 1, k) : k \in 0..Len(m \o t)} :
           m \in Messages, t \in Tails}

NoFrame == [packer |-> "none", num_bytes |-> 0, stage |-> "none",
            start |-> <<>>]

NoResult == Return([type |-> "none", v |-> 0])

RecvInit ==
  /\ conn \in Streams
  /\ pc = "idle"
  /\ frame = NoFrame
  /\ size = 0
  /\ received = <<>>
  /\ reads = <<>>
  /\ data = <<>>
  /\ result = NoResult
  /\ calls = 0

Init == CodecInit /\ RecvInit

(* ------------------------------ recv_all ------------------------------- *)

\* recv_all(sock, n): the call, up to the first test of the loop
recv_all(n, stage) ==
  /\ size' = n
  /\ received' = <<>>
  /\ reads' = <<>>
  /\ frame' = [frame EXCEPT !.stage = stage]
  /\ pc' = "recv_all"

\* a loop that takes a zero-byte read for the end of the data and returns
\* what it has
RecvAllRead_short ==
  /\ pc = "recv_all"
  /\ Len(received) < size
  /\ \E chunk \in sock_recv(size - Len(received)) :
       /\ reads' = Append(reads, [count |-> size - Len(received),
                                  got |-> chunk])
       /\ conn' = SubSeq(conn, Len(chunk) + 1, Len(conn))
       /\ IF chunk = <<>>
            THEN /\ data' = received
                 /\ pc' = "returned"
                 /\ UNCHANGED received
            ELSE /\ received' = received \o chunk
                 /\ UNCHANGED <<data, pc>>
  /\ UNCHANGED <<frame, size, result, calls>>
  /\ UNCHANGED codec_vars

\* a loop that asks for size bytes at every read
RecvAllRead_full ==
  /\ pc = "recv_all"
  /\ Len(received) < size
  /\ \E chunk \in sock_recv(size) :
       /\ reads' = Append(reads, [count |-> size, got |-> chunk])
       /\ conn' = SubSeq(conn, Len(chunk) + 1, Len(conn))
       /\ IF chunk = <<>>
            THEN /\ result' = Raise("Lost connection")
                 /\ pc' = "failed"
                 /\ UNCHANGED received
            ELSE /\ received' = received \o chunk
                 /\ UNCHANGED <<result, pc>>
  /\ UNCHANGED <<frame, size, data, calls>>
  /\ UNCHANGED codec_vars

\* one turn of the loop: a read of the bytes still missing
RecvAllRead ==
  /\ pc = "recv_all"
  /\ Len(received) < size
  /\ \E chunk \in sock_recv(size - Len(received)) :
       /\ reads' = Append(reads, [count |-> size - Len(received),
                                  got |-> chunk])
       /\ conn' = SubSeq(conn, Len(chunk) + 1, Len(conn))
       /\ IF chunk = <<>>
            THEN /\ result' = Raise("Lost connection")
                 /\ pc' = "failed"
                 /\ UNCHANGED received
            ELSE /\ received' = received \o chunk
                 /\ UNCHANGED <<result, pc>>
  /\ UNCHANGED <<frame, size, data, calls>>
  /\ UNCHANGED codec_vars

\* a loop that ends at the first read that returned bytes
RecvAllReturn_first ==
  /\ pc = "recv_all"
  /\ (received # <<>> \/ size = 0)
  /\ data' = received
  /\ pc' = "returned"
  /\ UNCHANGED <<conn, frame, size, received, reads, result, calls>>
  /\ UNCHANGED codec_vars

\* the loop ends: return received
RecvAllReturn ==
  /\ pc = "recv_all"
  /\ ~(Len(received) < size)
  /\ data' = received
  /\ pc' = "returned"
  /\ UNCHANGED <<conn, frame, size, received, reads, result, calls>>
  /\ UNCHANGED codec_vars

(* -------------------------------- recv --------------------------------- *)

\* a Python value with its type
Obj(type, v) == [type |-> type, v |-> v]

Finish(r) ==
  /\ result' = r
  /\ pc' = IF r.ok THEN "done" ELSE "failed"

\* the recv of the model decodes integers of the model only
Receivable(packer, num_bytes) == Decodable(packer, num_bytes, conn, 0)

\* cls.recv(sock) of a basePacker subclass, up to its recv_all
basePacker_recv(cls) ==
  /\ pc = "idle"
  /\ calls < MaxCalls
  /\ Receivable(cls, 0)
  /\ calls' = calls + 1
  /\ frame' = [packer |-> cls, num_bytes |-> 0, stage |-> "value",
               start |-> conn]
  /\ size' = calcsize(Format(cls))
  /\ received' = <<>>
  /\ reads' = <<>>
  /\ pc' = "recv_all"
  /\ UNCHANGED <<conn, data, result>>
  /\ UNCHANGED codec_vars

\* ... and from what recv_all returned
basePacker_recv_return ==
  /\ pc = "returned"
  /\ frame.packer \in BasePackers
  /\ LET r == struct_unpack(Format(frame.packer), data)
     IN  Finish(IF ~r.ok THEN r
                ELSE Return(Obj(IF frame.packer = "boolPacker" THEN "bool"
                                ELSE "int", r.val)))
  /\ UNCHANGED <<conn, frame, size, received, reads, data, calls>>
  /\ UNCHANGED codec_vars

\* uintPacker.recv(num_bytes, sock), up to its recv_all
uintPacker_recv(num_bytes) ==
  /\ pc = "idle"
  /\ calls < MaxCalls
  /\ Receivable("uintPacker", num_bytes)
  /\ calls' = calls + 1
  /\ frame' = [packer |-> "uintPacker", num_bytes |-> num_bytes,
               stage |-> "value", start |-> conn]
  /\ size' = num_bytes
  /\ received' = <<>>
  /\ reads' = <<>>
  /\ pc' = "recv_all"
  /\ UNCHANGED <<conn, data, result>>
  /\ UNCHANGED codec_vars

\* ... and from what recv_all returned: what uintPacker.unpack returns
uintPacker_recv_return ==
  /\ pc = "returned"
  /\ frame.packer = "uintPacker"
  /\ LET r == uintPacker_unpack(frame.num_bytes, data, 0)
     IN  Finish(IF r.ok THEN Return(Obj("tuple", r.val)) ELSE r)
  /\ UNCHANGED <<conn, frame, size, received, reads, data, calls>>
  /\ UNCHANGED codec_vars

\* astringPacker.recv(sock) and wstringPacker.recv(sock), up to the recv_all
\* of uint32Packer.recv
string_recv(packer) ==
  /\ pc = "idle"
  /\ calls < MaxCalls
  /\ Receivable(packer, 0)
  /\ calls' = calls + 1
  /\ frame' = [packer |-> packer, num_bytes |-> 0, stage |-> "length",
               start |-> conn]
  /\ size' = calcsize(">I")
  /\ received' = <<>>
  /\ reads' = <<>>
  /\ pc' = "recv_all"
  /\ UNCHANGED <<conn, data, result>>
  /\ UNCHANGED codec_vars

\* ... from the length uint32Packer.recv returned up to recv_all(sock, length)
string_recv_length ==
  /\ pc = "returned"
  /\ frame.packer \in StringPackers
  /\ frame.stage = "length"
  /\ LET length == struct_unpack(">I", data)
     IN  IF length.ok
           THEN /\ recv_all(length.val, "payload")
                /\ UNCHANGED result
           ELSE /\ Finish(length)
                /\ UNCHANGED <<frame, size, received, reads>>
  /\ UNCHANGED <<conn, data, calls>>
  /\ UNCHANGED codec_vars

\* ... and astringPacker.recv from what recv_all returned: str(data)
astringPacker_recv_return ==
  /\ pc = "returned"
  /\ frame.packer = "astringPacker"
  /\ frame.stage = "payload"
  /\ Finish(Return(Obj("str", data)))
  /\ UNCHANGED <<conn, frame, size, received, reads, data, calls>>
  /\ UNCHANGED codec_vars

\* ... and wstringPacker.recv: data.decode('utf-8')
wstringPacker_recv_return ==
  /\ pc = "returned"
  /\ frame.packer = "wstringPacker"
  /\ frame.stage = "payload"
  /\ LET s == utf8_decode(data)
     IN  Finish(IF s.ok THEN Return(Obj("str", s.val)) ELSE s)
  /\ UNCHANGED <<conn, frame, size, received, reads, data, calls>>
  /\ UNCHANGED codec_vars

\* the caller takes the value, or the exception, of its recv: the call's
\* frames are gone, the connection stays as the call left it
Resume ==
  /\ pc \in {"done", "failed"}
  /\ calls < MaxCalls
  /\ pc' = "idle"
  /\ frame' = NoFrame
  /\ size' = 0
  /\ received' = <<>>
  /\ reads' = <<>>
  /\ data' = <<>>
  /\ result' = NoResult
  /\ UNCHANGED <<conn, calls>>
  /\ UNCHANGED codec_vars

Next ==
  \/ \E cls \in BasePackers : basePacker_recv(cls)
  \/ basePacker_recv_return
  \/ \E num_bytes \in Widths : uintPacker_recv(num_bytes)
  \/ uintPacker_recv_return
  \/ \E packer \in StringPackers : string_recv(packer)
  \/ string_recv_length
  \/ astringPacker_recv_return
  \/ wstringPacker_recv_return
  \/ RecvAllRead
  \/ RecvAllReturn
  \/ Resume

\* the connection and its recv calls
Spec == Init /\ [][Next]_vars

\* the packers' pack and unpack
CodecStart == Init /\ conn = <<>>

CodecSpec == CodecStart /\ [][CodecNext]_vars

\* a recv call blocks its thread until it returns or raises: it runs on
Fairness == WF_vars(RecvAllRead) /\ WF_vars(RecvAllReturn)

FairSpec == Spec /\ Fairness

(* ------------------------------- claims -------------------------------- *)

IsUnpack == call.op \in {"unpack", "unpack_packed", "unpack_truncated"}

\* value mod 2^(8 * num_bytes); an integer of the model is below 2^32
LowBytes(value, num_bytes) ==
  IF num_bytes >= 4 THEN value ELSE value % (2 ^ (8 * num_bytes))

\* the values C1 calls representable
Representable ==
  CASE call.packer = "uintPacker" ->
         call.num_bytes >= 1 /\ call.value >= 0
         /\ call.value = LowBytes(call.value, call.num_bytes)
    [] call.packer \in RecordPackers -> FALSE
    [] OTHER -> TRUE

\* C1: round trip.  For every packer of the runtime and every value v it
\* can represent, unpack(pack(v), 0) returns exactly (v, len(pack(v))).
C1_RoundTrip ==
  (call.op = "unpack_packed" /\ call.offset = 0 /\ Representable)
    => ret = Return(<<call.value, Len(call.buf)>>)

\* a two-character string of two and three UTF-8 bytes has made the round trip
C1_Witness ==
  /\ call.op = "unpack_packed"
  /\ call.offset = 0
  /\ call.packer = "wstringPacker"
  /\ call.value = <<246, 8364>>
  /\ ret.ok
  /\ ret.val[2] = 9

\* the bytes unpack needs from the offset on: the width of an integer, and
\* for a string its prefix and the length the prefix states
Required ==
  CASE call.packer \in BasePackers -> calcsize(Format(call.packer))
    [] call.packer = "uintPacker" -> call.num_bytes
    [] call.packer \in StringPackers ->
         LET head == Slice(call.buf, call.offset, call.offset + 4)
         IN  IF Len(head) < 4 THEN 4 ELSE 4 + FromBigEndian(head, FALSE)
    [] call.packer = "VectorPacker" -> 12
    [] call.packer = "PlanePacker" -> 24

Remaining ==
  IF call.offset >= Len(call.buf) THEN 0 ELSE Len(call.buf) - call.offset

\* C2: truncation detection.  unpack(buf, offset) fails whenever fewer bytes
\* remain in buf from offset than the value requires; no unpack succeeds on a
\* too-short buffer or returns a new offset greater than len(buf).
C2_TruncationDetected ==
  IsUnpack =>
    /\ Remaining < Required => ~ret.ok
    /\ ret.ok => ret.val[2] <= Len(call.buf)

\* the bytes of the reads of rs, in arrival order
RECURSIVE Arrived(_)
Arrived(rs) == IF rs = <<>> THEN <<>> ELSE Head(rs).got \o Arrived(Tail(rs))

\* recv_all has what completes its result still to come on the connection
Completable == pc = "recv_all" /\ Len(conn) >= size - Len(received)

RecvAllExact ==
  pc = "returned" =>
    /\ Len(data) = size
    /\ data = Arrived(reads)
    /\ \A i \in 1..Len(reads) : Len(reads[i].got) \in 1..reads[i].count

SmallInt32(v) == IF v >= 0 THEN <<0, 0, 0, v>> ELSE <<255, 255, 255, 256 + v>>

VectorBytes(v) == SmallInt32(v.x) \o SmallInt32(v.y) \o SmallInt32(v.z)

\* C5: record composition and offset threading.  A record packer built
\* from the runtime's packers packs to the concatenation of its fields'
\* encodings in declared order (Vector(10, 2, 3) to 00 00 00 0A 00 00 00 02
\* 00 00 00 03), and unpack(pack(r), 0) returns every field unchanged and
\* the final offset len(pack(r)) (24 for a Plane).
C5_RecordComposition ==
  /\ (call.op = "pack" /\ call.packer = "VectorPacker") =>
       ret = Return(VectorBytes(call.value))
  /\ (call.op = "pack" /\ call.packer = "VectorPacker"
      /\ call.value = [x |-> 10, y |-> 2, z |-> 3]) =>
       ret = Return(<<0, 0, 0, 10, 0, 0, 0, 2, 0, 0, 0, 3>>)
  /\ (call.op = "pack" /\ call.packer = "PlanePacker") =>
       ret = Return(VectorBytes(call.value.sv) \o VectorBytes(call.value.nv))
  /\ (call.op = "unpack_packed" /\ call.packer \in RecordPackers) =>
       /\ ret = Return(<<call.value, Len(call.buf)>>)
       /\ ret.val[2] = call.offset
                       + (IF call.packer = "PlanePacker" THEN 24 ELSE 12)

\* the plane of test_objects.py has been packed and unpacked at offset 0
C5_Witness ==
  /\ call.op = "unpack_packed"
  /\ call.packer = "PlanePacker"
  /\ call.offset = 0
  /\ call.value = [sv |-> [x |-> 10, y |-> 2, z |-> 3],
                   nv |-> [x |-> 4, y |-> 5, z |-> -6]]
  /\ ret.ok
  /\ ret.val[2] = 24

\* the bytes the recv call has taken from the connection
Consumed == SubSeq(frame.start, 1, Len(frame.start) - Len(conn))

\* C6: uintPacker.recv agrees with uintPacker.unpack and with the contract
\* recv(connection) -> value: it returns the integer v itself, the first
\* component of uintPacker.unpack(n, pack(n, v), 0).
C6_UintRecvReturnsValue ==
  (pc = "done" /\ frame.packer = "uintPacker") =>
    /\ result.val.type = "int"
    /\ result.val.v = uintPacker_unpack(frame.num_bytes, Consumed, 0).val[1]

\* the length a string frame's prefix states
PrefixLength(b) == FromBigEndian(SubSeq(b, 1, 4), FALSE)

\* b opens with a whole string frame: the prefix and the payload it states
OpensWithFrame(b) == Len(b) >= 4 /\ Len(b) - 4 >= PrefixLength(b)

\* C7: string recv decodes exactly as string unpack.  For a frame b of a
\* 4-byte length prefix and that many payload bytes, delivered in any
\* chunking, recv(sock) succeeds if and only if unpack(b, 0) succeeds, and
\* then returns the same string; a payload not valid in the declared
\* encoding is rejected by recv as it is by unpack.
C7_StringRecvAsUnpack ==
  (pc \in {"done", "failed"} /\ frame.packer \in StringPackers
   /\ OpensWithFrame(frame.start)) =>
    LET b == SubSeq(frame.start, 1, 4 + PrefixLength(frame.start))
        u == unpack(frame.packer, 0, b, 0)
    IN  /\ result.ok <=> u.ok
        /\ result.ok => result.val.v = u.val[1]

\* C8: arbitrary-width integer encoding.  For every width n >= 0 and every
\* non-negative value, uintPacker.pack(n, value) emits exactly n bytes, most
\* significant first, byte k being (value >> (8*(n-1-k))) & 0xFF; a value
\* that does not fit is truncated, not rejected, so that
\* uintPacker.unpack(n, pack(n, value), 0) returns (value mod 2^(8n), n).
C8_UintEncoding ==
  (call.packer = "uintPacker" /\ call.value >= 0) =>
    /\ call.op = "pack" =>
         /\ ret.ok
         /\ Len(ret.val) = call.num_bytes
         /\ \A k \in 1..call.num_bytes :
              ret.val[k] = (call.value \div (256 ^ (call.num_bytes - k))) % 256
    /\ (call.op = "unpack_packed" /\ call.offset = 0) =>
         ret = Return(<<LowBytes(call.value, call.num_bytes), call.num_bytes>>)

\* 261 has been packed in one byte and unpacked as 5
C8_Witness ==
  /\ call.op = "unpack_packed"
  /\ call.offset = 0
  /\ call.packer = "uintPacker"
  /\ call.num_bytes = 1
  /\ call.value = 261
  /\ ret = Return(<<5, 1>>)

\* the range of each integer format, among the integers of the model
InTypeRange(packer, v) ==
  CASE packer = "int8Packer" -> -128 <= v /\ v <= 127
    [] packer = "int16Packer" -> -32768 <= v /\ v <= 32767
    [] packer = "uint8Packer" -> 0 <= v /\ v <= 255
    [] packer = "uint16Packer" -> 0 <= v /\ v <= 65535
    [] packer \in {"uint32Packer", "uint64Packer"} -> 0 <= v
    [] packer \in {"int32Packer", "int64Packer"} -> TRUE

\* the w bytes holding the low 8w bits of v, most significant first
WrappedBytes(v, w) == [k \in 1..w |-> ShiftRight8(v, w - k) % 256]

\* C9 as stated: fixed-width integers wrap instead of being range-checked:
\* for every integer v, also outside the type's range, pack(v) succeeds and
\* yields exactly w bytes holding the low 8w bits of v.
C9_PackWraps ==
  (call.op = "pack" /\ call.packer \in IntPackers) =>
    ret = Return(WrappedBytes(call.value, calcsize(Format(call.packer))))

\* C9 as amended: for every integer v inside the type's range pack(v)
\* yields exactly w bytes holding v in big-endian two's complement (-6 as
\* FF FF FF FA for int32Packer); a value outside the range is rejected with
\* struct.error, not wrapped.
C9_PackRangeChecked ==
  (call.op = "pack" /\ call.packer \in IntPackers) =>
    /\ InTypeRange(call.packer, call.value) =>
         ret = Return(WrappedBytes(call.value, calcsize(Format(call.packer))))
    /\ (call.packer = "int32Packer" /\ call.value = -6) =>
         ret = Return(<<255, 255, 255, 250>>)
    /\ ~InTypeRange(call.packer, call.value) => ret = Raise("struct.error")

\* int8Packer.pack(128) has raised
C9_Witness ==
  /\ call.op = "pack"
  /\ call.packer = "int8Packer"
  /\ call.value = 128
  /\ ~ret.ok

\* the bytes one encoded value of the recv call's packer takes
EncodedLength ==
  CASE frame.packer \in BasePackers -> calcsize(Format(frame.packer))
    [] frame.packer = "uintPacker" -> frame.num_bytes
    [] frame.packer \in StringPackers -> 4 + PrefixLength(frame.start)

\* C10: recv_all never over-consumes the connection.  Every read asks for
\* exactly size minus the bytes already collected, which is at least 1, and
\* no read is issued when size is 0; a successful recv has consumed exactly
\* the bytes of one encoded value (4 + length for a string, the prefix alone
\* for an empty string), and the bytes that follow stay on the connection.
C10_NoOverConsumption ==
  /\ \A i \in 1..Len(reads) :
       /\ reads[i].count = size - Len(Arrived(SubSeq(reads, 1, i - 1)))
       /\ reads[i].count >= 1
       /\ Len(reads[i].got) <= reads[i].count
  /\ size = 0 => reads = <<>>
  /\ pc = "done" =>
       /\ Len(Consumed) = EncodedLength
       /\ frame.start = Consumed \o conn

\* an empty string has been received and the bytes after it are unread
C10_Witness ==
  /\ pc = "done"
  /\ frame.packer = "wstringPacker"
  /\ result = Return(Obj("str", <<>>))
  /\ reads = <<>>
  /\ Len(Consumed) = 4
  /\ conn # <<>>

=============================================================================
